---------------------------- MODULE Spec2Model ----------------------------
(***************************************************************************)
(* Model of packages/cli/src/Version.ts: the `prisma version` command.     *)
(*                                                                         *)
(* Strings are sequences of one-character strings, so that toLowerCase,    *)
(* replace(/\s+/g, '-'), padEnd, split, join and path.relative are         *)
(* computed character by character as the JavaScript does.                 *)
(***************************************************************************)
EXTENDS Integers, Sequences, FiniteSets, TLC

VARIABLES
    pc,           \* position of parse(): the await it is suspended at
    argv,         \* parse()'s parameter, dead after line 62
    args,         \* result of arg(argv, ...), line 55
    cwd,          \* process.cwd()
    cliType,      \* cliQueryEngineType, line 75
    platform,     \* line 74
    step,         \* which of the four resolveEngine calls (lines 76-80) is next
    cur,          \* what the latest resolveEngine call read from its environment
    inflight,     \* getVersion calls started and not yet settled
    engines,      \* the EngineInfo locals of lines 76-80, by role
    rows,         \* line 84
    config,       \* what getSchemaPath/getSchema/getConfig gave, lines 99-118
    featureFlags, \* line 100
    calls,        \* the collaborators called so far, in call order
    result        \* what parse() settled with

vars == <<pc, argv, args, cwd, cliType, platform, step, cur, inflight, engines,
          rows, config, featureFlags, calls, result>>

None == [kind |-> "none"]

(***************************************************************************)
(* Bounds of the model.                                                    *)
(***************************************************************************)
MaxArgs == 2          \* longest argv
MaxGenerators == 2    \* most generator blocks in a parsed configuration
MaxFeatures == 2      \* most preview features one generator declares
MaxRows == 2          \* most rows given to printTable on its own

(***************************************************************************)
(* String helpers: the JavaScript built-ins the file uses.                 *)
(***************************************************************************)
RECURSIVE Concat(_)
\* ''.concat(...parts): what a template literal does with its pieces
Concat(parts) ==
    IF parts = <<>> THEN <<>> ELSE Head(parts) \o Concat(Tail(parts))

RECURSIVE Join(_, _)
\* Array.prototype.join
Join(parts, sep) ==
    IF parts = <<>> THEN <<>>
    ELSE IF Len(parts) = 1 THEN Head(parts)
    ELSE Head(parts) \o sep \o Join(Tail(parts), sep)

RECURSIVE SplitFrom(_, _, _)
SplitFrom(s, sep, acc) ==
    IF s = <<>> THEN <<acc>>
    ELSE IF Head(s) = sep THEN <<acc>> \o SplitFrom(Tail(s), sep, <<>>)
    ELSE SplitFrom(Tail(s), sep, Append(acc, Head(s)))

\* String.prototype.split with a one-character separator
Split(s, sep) == SplitFrom(s, sep, <<>>)

RECURSIVE Spaces(_)
Spaces(n) == IF n <= 0 THEN <<>> ELSE <<" ">> \o Spaces(n - 1)

\* String.prototype.padEnd(n): spaces are appended, never removed
PadEnd(s, n) == s \o Spaces(n - Len(s))

\* String.prototype.padStart(n)
PadStart(s, n) == Spaces(n - Len(s)) \o s

Max(a, b) == IF a >= b THEN a ELSE b

UpperChars == <<"A", "B", "C", "D", "E", "F", "G", "H", "I", "J", "K", "L", "M",
                "N", "O", "P", "Q", "R", "S", "T", "U", "V", "W", "X", "Y", "Z">>
LowerChars == <<"a", "b", "c", "d", "e", "f", "g", "h", "i", "j", "k", "l", "m",
                "n", "o", "p", "q", "r", "s", "t", "u", "v", "w", "x", "y", "z">>

\* toLowerCase on one character
LowerChar(c) ==
    IF \E i \in 1..Len(UpperChars) : UpperChars[i] = c
    THEN LowerChars[CHOOSE i \in 1..Len(UpperChars) : UpperChars[i] = c]
    ELSE c

ToLowerCase(s) == [i \in 1..Len(s) |-> LowerChar(s[i])]

\* the characters \s matches, among those the model uses
IsSpace(c) == c \in {" ", "\t", "\n"}

RECURSIVE ReplaceSpaceRuns(_, _)
\* replace(/\s+/g, '-'): every maximal run of whitespace becomes one hyphen
ReplaceSpaceRuns(s, inRun) ==
    IF s = <<>> THEN <<>>
    ELSE IF IsSpace(Head(s))
         THEN (IF inRun THEN <<>> ELSE <<"-">>) \o ReplaceSpaceRuns(Tail(s), TRUE)
         ELSE <<Head(s)>> \o ReplaceSpaceRuns(Tail(s), FALSE)

RECURSIVE ReplaceEachSpace(_)
\* replace(/\s/g, '-'): every whitespace character becomes a hyphen
ReplaceEachSpace(s) ==
    IF s = <<>> THEN <<>>
    ELSE <<IF IsSpace(Head(s)) THEN "-" ELSE Head(s)>> \o ReplaceEachSpace(Tail(s))

\* slugify with /\s/g for /\s+/g
slugifyNoCollapse(str) == ReplaceEachSpace(ToLowerCase(str))

\* slugify, lines 168-170
slugify(str) == ReplaceSpaceRuns(ToLowerCase(str), FALSE)


(***************************************************************************)
(* Values of the program.                                                  *)
(***************************************************************************)
\* a JavaScript undefined / null where a string may stand; no string of the
\* model equals it, since every string is a sequence of single characters
Undefined == <<"undefined">>

\* what `if (x)` tests for a string-or-undefined x
Truthy(x) == x # Undefined /\ x # <<>>

\* BinaryType, imported at line 6: the engine roles
queryEngine == "query-engine"
libqueryEngine == "libquery-engine"
migrationEngine == "migration-engine"
introspectionEngine == "introspection-engine"
prismaFmt == "prisma-fmt"

EngineTypes == {queryEngine, libqueryEngine, migrationEngine, introspectionEngine, prismaFmt}

\* engineEnvVarMap, imported at line 7 and read at line 135
engineEnvVarMap(engineName) ==
    CASE engineName = queryEngine ->
           <<"P", "R", "I", "S", "M", "A", "_", "Q", "U", "E", "R", "Y", "_", "E", "N",
             "G", "I", "N", "E", "_", "B", "I", "N", "A", "R", "Y">>
      [] engineName = libqueryEngine ->
           <<"P", "R", "I", "S", "M", "A", "_", "Q", "U", "E", "R", "Y", "_", "E", "N",
             "G", "I", "N", "E", "_", "L", "I", "B", "R", "A", "R", "Y">>
      [] engineName = migrationEngine ->
           <<"P", "R", "I", "S", "M", "A", "_", "M", "I", "G", "R", "A", "T", "I", "O",
             "N", "_", "E", "N", "G", "I", "N", "E", "_", "B", "I", "N", "A", "R", "Y">>
      [] engineName = introspectionEngine ->
           <<"P", "R", "I", "S", "M", "A", "_", "I", "N", "T", "R", "O", "S", "P", "E",
             "C", "T", "I", "O", "N", "_", "E", "N", "G", "I", "N", "E", "_", "B", "I",
             "N", "A", "R", "Y">>
      [] engineName = prismaFmt ->
           <<"P", "R", "I", "S", "M", "A", "_", "F", "M", "T", "_", "B", "I", "N", "A",
             "R", "Y">>

\* packageJson, line 24: name, version, dependencies['@prisma/engines'],
\* devDependencies['@prisma/studio-server']
PkgName == <<"p", "r", "i", "s", "m", "a">>
PkgVersion == <<"3", ".", "9", ".", "0">>
EnginesDep == <<"3", ".", "9", ".", "0", "-", "5", "8", ".", "b", "c", "c", "2">>
StudioDep == <<"0", ".", "4", "5", "8", ".", "0">>

\* the row labels of lines 85-96 and 103
LblClient == <<"@", "p", "r", "i", "s", "m", "a", "/", "c", "l", "i", "e", "n", "t">>
LblPlatform == <<"C", "u", "r", "r", "e", "n", "t", " ", "p", "l", "a", "t", "f", "o", "r", "m">>
LblQueryEngine == <<"Q", "u", "e", "r", "y", " ", "E", "n", "g", "i", "n", "e">>
SfxNodeAPI == <<" ", "(", "N", "o", "d", "e", "-", "A", "P", "I", ")">>
SfxBinary == <<" ", "(", "B", "i", "n", "a", "r", "y", ")">>
LblMigration == <<"M", "i", "g", "r", "a", "t", "i", "o", "n", " ", "E", "n", "g", "i", "n", "e">>
LblIntrospection == <<"I", "n", "t", "r", "o", "s", "p", "e", "c", "t", "i", "o", "n", " ",
                      "E", "n", "g", "i", "n", "e">>
LblFormat == <<"F", "o", "r", "m", "a", "t", " ", "E", "n", "g", "i", "n", "e">>
LblHash == <<"D", "e", "f", "a", "u", "l", "t", " ", "E", "n", "g", "i", "n", "e", "s", " ",
             "H", "a", "s", "h">>
LblStudio == <<"S", "t", "u", "d", "i", "o">>
LblPreview == <<"P", "r", "e", "v", "i", "e", "w", " ", "F", "e", "a", "t", "u", "r", "e", "s">>
NotFound == <<"N", "o", "t", " ", "f", "o", "u", "n", "d">>

(***************************************************************************)
(* The environment the command runs in: what the file system, the          *)
(* environment variables and the collaborators may hold or answer.         *)
(***************************************************************************)
OverridePath == <<"/", "o", "p", "t", "/", "c", "u", "s", "t", "o", "m", "/", "q", "e">>

BinDir == <<"/", "u", "s", "r", "/", "l", "o", "c", "a", "l", "/", "b", "i", "n">>
RootDir == <<"/">>

\* process.cwd(): absolute, without a trailing slash except for the root
Cwds == {RootDir, BinDir}

\* what process.env[envVar] may hold: unset, empty, or an absolute path
EnvValues == {Undefined, <<>>, OverridePath}

\* the file name of the bundled engine of a role
EngineFile(engineName) ==
    CASE engineName = queryEngine ->
           <<"q", "u", "e", "r", "y", "-", "e", "n", "g", "i", "n", "e">>
      [] engineName = libqueryEngine ->
           <<"l", "i", "b", "q", "u", "e", "r", "y", "_", "e", "n", "g", "i", "n", "e",
             ".", "s", "o", ".", "n", "o", "d", "e">>
      [] engineName = migrationEngine ->
           <<"m", "i", "g", "r", "a", "t", "i", "o", "n", "-", "e", "n", "g", "i", "n", "e">>
      [] engineName = introspectionEngine ->
           <<"i", "n", "t", "r", "o", "s", "p", "e", "c", "t", "i", "o", "n", "-",
             "e", "n", "g", "i", "n", "e">>
      [] engineName = prismaFmt ->
           <<"p", "r", "i", "s", "m", "a", "-", "f", "m", "t">>

\* where resolveBinary, the default resolver of line 142, finds the bundled engine
DefaultPath(engineName) == BinDir \o <<"/">> \o EngineFile(engineName)

\* the version the binary at a path reports to getVersion when it answers
ReportedVersion(binaryPath) ==
    IF binaryPath = OverridePath
    THEN <<"3", ".", "1", ".", "0">>
    ELSE <<"4", ".", "0", ".", "0">>

\* getPlatform's answers and getInstalledPrismaClientVersion's answers
Platforms == {<<"d", "a", "r", "w", "i", "n">>}
ClientVersions == {Undefined, <<"3", ".", "9", ".", "0">>}

\* getSchemaPath's answers: null, or the path of the nearest schema file
SchemaPaths == {Undefined, <<"/", "a", "p", "p", "/", "s", "c", "h", "e", "m", "a", ".",
                            "p", "r", "i", "s", "m", "a">>}

\* preview feature names, and the previewFeatures lists a generator may declare
FeatureNames == {<<"a", "b">>, <<"c">>}

SeqsUpTo(S, n) == UNION {[1..k -> S] : k \in 0..n}

IsInjective(f) == \A i, j \in DOMAIN f : f[i] = f[j] => i = j

FeatureLists == {fl \in SeqsUpTo(FeatureNames, MaxFeatures) : IsInjective(fl)}

\* config.generators as getConfig may return it: each generator is its previewFeatures
GeneratorLists == SeqsUpTo(FeatureLists, MaxGenerators)

(***************************************************************************)
(* path.relative(from, to) for absolute POSIX paths, line 131.             *)
(***************************************************************************)
\* the segments of an absolute path: '/' has none
Segments(p) == SelectSeq(Split(p, "/"), LAMBDA seg : seg # <<>>)

RECURSIVE CommonPrefixLen(_, _)
CommonPrefixLen(a, b) ==
    IF a = <<>> \/ b = <<>> \/ Head(a) # Head(b) THEN 0
    ELSE 1 + CommonPrefixLen(Tail(a), Tail(b))

\* one '..' per segment of `from` below the common ancestor, then what is left of `to`
PathRelative(from, to) ==
    LET f == Segments(from)
        t == Segments(to)
        n == CommonPrefixLen(f, t)
    IN  Join([i \in 1..(Len(f) - n) |-> <<".", ".">>] \o SubSeq(t, n + 1, Len(t)), <<"/">>)

(***************************************************************************)
(* printEngineInfo, lines 129-132.  An EngineInfo is                       *)
(* [path, version, fromEnvVar], fromEnvVar being Undefined when absent.    *)
(***************************************************************************)
\* printEngineInfo without path.relative
printEngineInfoAbsolute(info, dir) ==
    LET resolved == IF Truthy(info.fromEnvVar)
                    THEN <<",", " ", "r", "e", "s", "o", "l", "v", "e", "d", " ", "b", "y", " ">>
                         \o info.fromEnvVar
                    ELSE <<>>
    IN  Concat(<<info.version, <<" ", "(", "a", "t", " ">>, info.path, resolved, <<")">>>>)

\* printEngineInfo; `dir` is process.cwd()
printEngineInfo(info, dir) ==
    LET resolved == IF Truthy(info.fromEnvVar)
                    THEN <<",", " ", "r", "e", "s", "o", "l", "v", "e", "d", " ", "b", "y", " ">>
                         \o info.fromEnvVar
                    ELSE <<>>
    IN  Concat(<<info.version, <<" ", "(", "a", "t", " ">>, PathRelative(dir, info.path),
                 resolved, <<")">>>>)

(***************************************************************************)
(* printTable, lines 147-157.  A row is <<name, value>>.                   *)
(***************************************************************************)
\* acc[key] = value on a plain object, kept as its entries in insertion order:
\* a key already present keeps its place and takes the new value
SetProperty(acc, key, value) ==
    IF \E i \in 1..Len(acc) : acc[i][1] = key
    THEN [i \in 1..Len(acc) |-> IF acc[i][1] = key THEN <<key, value>> ELSE acc[i]]
    ELSE Append(acc, <<key, value>>)

RECURSIVE ReduceRows(_, _)
\* rows.reduce((acc, [name, value]) => { acc[slugify(name)] = value; return acc }, {})
ReduceRows(rs, acc) ==
    IF rs = <<>> THEN acc
    ELSE ReduceRows(Tail(rs), SetProperty(acc, slugify(Head(rs)[1]), Head(rs)[2]))

\* the object of line 149, as its entries
JsonObject(rs) == ReduceRows(rs, <<>>)

\* JSON.stringify(result, null, 2) for an object of strings; the strings of the
\* model hold no character that JSON escapes in a value
JsonStringify(obj) ==
    IF obj = <<>> THEN <<"{", "}">>
    ELSE LET member(e) == Concat(<<<<" ", " ", "\"">>, e[1], <<"\"", ":", " ", "\"">>,
                                   e[2], <<"\"">>>>)
         IN  Concat(<<<<"{", "\n">>,
                      Join([i \in 1..Len(obj) |-> member(obj[i])], <<",", "\n">>),
                      <<"\n", "}">>>>)

RECURSIVE MaxPad(_, _)
\* rows.reduce((acc, curr) => Math.max(acc, curr[0].length), 0)
MaxPad(rs, acc) ==
    IF rs = <<>> THEN acc ELSE MaxPad(Tail(rs), Max(acc, Len(Head(rs)[1])))

\* line 156 with padStart for padEnd
TextLinePadStart(row, maxPad) ==
    Concat(<<PadStart(row[1], maxPad), <<" ", ":", " ">>, row[2]>>)

\* `${left.padEnd(maxPad)} : ${right}`
TextLine(row, maxPad) ==
    Concat(<<PadEnd(row[1], maxPad), <<" ", ":", " ">>, row[2]>>)

\* the lines of line 156 before they are joined
TextLines(rs) == [i \in 1..Len(rs) |-> TextLine(rs[i], MaxPad(rs, 0))]

printTable(rs, json) ==
    IF json
    THEN [kind |-> "json", out |-> JsonStringify(JsonObject(rs))]
    ELSE [kind |-> "text", out |-> Join(TextLines(rs), <<"\n">>)]

(***************************************************************************)
(* arg(argv, {...}), lines 55-62, and help, lines 159-165.                 *)
(***************************************************************************)
\* the option names of lines 56-61 that take no value
KnownFlags == {"--help", "-h", "--version", "-v", "--json"}

\* the aliases of lines 57 and 59
Canonical(tok) ==
    CASE tok = "-h" -> "--help"
      [] tok = "-v" -> "--version"
      [] OTHER -> tok

\* what an argv may hold: options of the table, and one that is not in it
Tokens == {"--help", "-h", "-v", "--json", "--bogus"}

Argvs == SeqsUpTo(Tokens, MaxArgs)

\* arg: an Error for the first token that is no option of the table, otherwise
\* the set of options given
Arg(av) ==
    IF \E i \in 1..Len(av) : av[i] \notin KnownFlags
    THEN [kind |-> "error",
          message |-> av[CHOOSE i \in 1..Len(av) :
                            /\ av[i] \notin KnownFlags
                            /\ \A j \in 1..(i - 1) : av[j] \in KnownFlags],
          flags |-> {}]
    ELSE [kind |-> "args", message |-> "", flags |-> {Canonical(av[i]) : i \in 1..Len(av)}]

isError(a) == a.kind = "error"

\* Version.help, lines 40-52
HelpText == [kind |-> "help", error |-> ""]

\* help(error), lines 159-165: the message of an argument error is never empty
help(error) ==
    IF error # "" THEN [kind |-> "HelpError", error |-> error] ELSE HelpText

(***************************************************************************)
(* parse, lines 54-107, and the two private methods it awaits.             *)
(***************************************************************************)
Call(fn, role) == [fn |-> fn, role |-> role]

\* lines 76-80 reordered to follow the rows of lines 88-94
ResolveOrderAsDisplayed(t) == <<t, migrationEngine, introspectionEngine, prismaFmt>>

\* the order of the resolveEngine calls of lines 76-80
ResolveOrder(t) == <<introspectionEngine, migrationEngine, t, prismaFmt>>

\* a promise parse awaits rejected: parse rejects with the same error
Rejected(fn, role) == [kind |-> "rejected", error |-> Call(fn, role)]

Init ==
    /\ pc = "start"
    /\ argv \in Argvs
    /\ args = None
    /\ cwd \in Cwds
    /\ cliType = ""
    /\ platform = Undefined
    /\ step = 0
    /\ cur = None
    /\ inflight = {}
    /\ engines = <<>>
    /\ rows = <<>>
    /\ config = None
    /\ featureFlags = <<>>
    /\ calls = <<>>
    /\ result = None

\* lines 55-74 without the return of lines 68-70
ParseArgsNoHelpReturn ==
    /\ pc = "start"
    /\ args' = Arg(argv)
    /\ argv' = <<>>
    /\ IF isError(args')
       THEN /\ result' = help(args'.message)
            /\ pc' = "done"
            /\ calls' = calls
       ELSE /\ result' = result
            /\ pc' = "getPlatform"
            /\ calls' = calls \o <<Call("loadEnvFile", ""), Call("getPlatform", "")>>
    /\ UNCHANGED <<cwd, cliType, platform, step, cur, inflight, engines, rows, config,
                   featureFlags>>

\* lines 55-74: up to the first await
ParseArgs ==
    /\ pc = "start"
    /\ args' = Arg(argv)
    /\ argv' = <<>>
    /\ IF isError(args')
       THEN /\ result' = help(args'.message)
            /\ pc' = "done"
            /\ calls' = calls
       ELSE IF "--help" \in args'.flags
       THEN /\ result' = help("")
            /\ pc' = "done"
            /\ calls' = calls
       ELSE /\ result' = result
            /\ pc' = "getPlatform"
            /\ calls' = calls \o <<Call("loadEnvFile", ""), Call("getPlatform", "")>>
    /\ UNCHANGED <<cwd, cliType, platform, step, cur, inflight, engines, rows, config,
                   featureFlags>>

\* getPlatform settles; line 75 runs
GetPlatform ==
    /\ pc = "getPlatform"
    /\ \E p \in Platforms, t \in {queryEngine, libqueryEngine} :
         /\ platform' = p
         /\ cliType' = t
    /\ calls' = Append(calls, Call("getCliQueryEngineType", ""))
    /\ step' = 1
    /\ pc' = "resolveEngine"
    /\ UNCHANGED <<argv, args, cwd, cur, inflight, engines, rows, config, featureFlags,
                   result>>

\* line 137 without fs.existsSync
UseEnvPathIfSet(pathFromEnv, exists) == Truthy(pathFromEnv)

\* the test of line 137
UseEnvPath(pathFromEnv, exists) == Truthy(pathFromEnv) /\ exists

\* resolveEngine, lines 135-143, up to the getVersion it awaits.  What the
\* environment holds for the role is read here: the variable's value, whether
\* that path exists, and whether the default resolver finds a bundled engine.
ResolveEngine ==
    /\ pc = "resolveEngine"
    /\ LET engineName == ResolveOrder(cliType)[step]
           envVar == engineEnvVarMap(engineName)
       IN  \E pathFromEnv \in EnvValues, defaultFound \in BOOLEAN :
           \E exists \in (IF Truthy(pathFromEnv) THEN BOOLEAN ELSE {FALSE}) :
             /\ cur' = [engineName |-> engineName, pathFromEnv |-> pathFromEnv,
                        exists |-> exists, defaultFound |-> defaultFound,
                        probe |-> "pending"]
             /\ IF UseEnvPath(pathFromEnv, exists)
                THEN /\ inflight' = inflight \cup
                            {[engineName |-> engineName, path |-> pathFromEnv,
                              fromEnvVar |-> envVar]}
                     /\ calls' = calls \o <<Call("existsSync", engineName),
                                            Call("getVersion", engineName)>>
                     /\ pc' = "getVersion"
                     /\ result' = result
                ELSE IF defaultFound
                THEN /\ inflight' = inflight \cup
                            {[engineName |-> engineName, path |-> DefaultPath(engineName),
                              fromEnvVar |-> Undefined]}
                     /\ calls' = calls \o <<Call("resolveBinary", engineName),
                                            Call("getVersion", engineName)>>
                     /\ pc' = "getVersion"
                     /\ result' = result
                ELSE /\ inflight' = inflight
                     /\ calls' = Append(calls, Call("resolveBinary", engineName))
                     /\ pc' = "done"
                     /\ result' = Rejected("resolveBinary", engineName)
    /\ UNCHANGED <<argv, args, cwd, cliType, platform, step, engines, rows, config,
                   featureFlags>>

\* the EngineInfo of lines 139 and 144
EngineInfo(probe) ==
    [path |-> probe.path, version |-> ReportedVersion(probe.path),
     fromEnvVar |-> probe.fromEnvVar]

\* resolveEngine returned `info` for `engineName`: parse goes on to the next
\* resolveEngine call or, after the fourth, to line 82
Resolved(engineName, info) ==
    /\ engines' = engines @@ (engineName :> info)
    /\ result' = result
    /\ IF step < 4
       THEN /\ step' = step + 1
            /\ pc' = "resolveEngine"
            /\ calls' = calls
       ELSE /\ step' = step
            /\ pc' = "getClientVersion"
            /\ calls' = Append(calls, Call("getInstalledPrismaClientVersion", ""))

\* a failed probe reported as an unavailable engine instead
ProbeFailedDegrades(probe) ==
    Resolved(probe.engineName,
             [path |-> probe.path, version |-> <<"?">>, fromEnvVar |-> probe.fromEnvVar])

\* getVersion rejected at line 138 or 143: nothing catches it, in resolveEngine
\* or in parse
ProbeFailed(probe) ==
    /\ engines' = engines
    /\ result' = Rejected("getVersion", probe.engineName)
    /\ step' = step
    /\ pc' = "done"
    /\ calls' = calls

\* getVersion settles, lines 138-139 and 143-144
GetVersion ==
    /\ pc = "getVersion"
    /\ \E probe \in inflight, ok \in BOOLEAN :
         /\ inflight' = inflight \ {probe}
         /\ cur' = [cur EXCEPT !.probe = IF ok THEN "ok" ELSE "failed"]
         /\ IF ok
            THEN Resolved(probe.engineName, EngineInfo(probe))
            ELSE ProbeFailed(probe)
    /\ UNCHANGED <<argv, args, cwd, cliType, platform, rows, config, featureFlags>>

\* packageJson.dependencies['@prisma/engines'].split('.').pop(), line 95
EnginesHash == LET parts == Split(EnginesDep, ".") IN parts[Len(parts)]

\* the rows literal of lines 84-97, with Studio and the hash in the other order
BuildRowsStudioFirst(clientVersion) ==
    << <<PkgName, PkgVersion>>,
       <<LblClient, IF clientVersion = Undefined THEN NotFound ELSE clientVersion>>,
       <<LblStudio, StudioDep>>,
       <<LblPlatform, platform>>,
       <<LblQueryEngine \o (IF cliType = libqueryEngine THEN SfxNodeAPI ELSE SfxBinary),
         printEngineInfo(engines[cliType], cwd)>>,
       <<LblMigration, printEngineInfo(engines[migrationEngine], cwd)>>,
       <<LblIntrospection, printEngineInfo(engines[introspectionEngine], cwd)>>,
       <<LblFormat, printEngineInfo(engines[prismaFmt], cwd)>>,
       <<LblHash, EnginesHash>> >>

\* the rows literal of lines 84-97
BuildRows(clientVersion) ==
    << <<PkgName, PkgVersion>>,
       <<LblClient, IF clientVersion = Undefined THEN NotFound ELSE clientVersion>>,
       <<LblPlatform, platform>>,
       <<LblQueryEngine \o (IF cliType = libqueryEngine THEN SfxNodeAPI ELSE SfxBinary),
         printEngineInfo(engines[cliType], cwd)>>,
       <<LblMigration, printEngineInfo(engines[migrationEngine], cwd)>>,
       <<LblIntrospection, printEngineInfo(engines[introspectionEngine], cwd)>>,
       <<LblFormat, printEngineInfo(engines[prismaFmt], cwd)>>,
       <<LblHash, EnginesHash>>,
       <<LblStudio, StudioDep>> >>

\* getInstalledPrismaClientVersion settles, lines 82-99
GetClientVersion ==
    /\ pc = "getClientVersion"
    /\ \E prismaClientVersion \in ClientVersions :
         rows' = BuildRows(prismaClientVersion)
    /\ calls' = Append(calls, Call("getSchemaPath", ""))
    /\ cur' = None
    /\ pc' = "getSchemaPath"
    /\ UNCHANGED <<argv, args, cwd, cliType, platform, step, inflight, engines,
                   config, featureFlags, result>>

\* lines 119-126 taking the last generator that declares features
FindFlagsLast(generators) ==
    IF \E i \in 1..Len(generators) : Len(generators[i]) > 0
    THEN generators[CHOOSE i \in 1..Len(generators) :
                        /\ Len(generators[i]) > 0
                        /\ \A j \in (i + 1)..Len(generators) : Len(generators[j]) = 0]
    ELSE <<>>

\* config.generators.find((g) => g.previewFeatures.length > 0), lines 119-126
FindFlags(generators) ==
    IF \E i \in 1..Len(generators) : Len(generators[i]) > 0
    THEN generators[CHOOSE i \in 1..Len(generators) :
                        /\ Len(generators[i]) > 0
                        /\ \A j \in 1..(i - 1) : Len(generators[j]) = 0]
    ELSE <<>>

\* lines 102-104
PushFlags(rs, flags) ==
    IF Len(flags) > 0
    THEN Append(rs, <<LblPreview, Join(flags, <<",", " ">>)>>)
    ELSE rs

\* getFeatureFlags returned `flags`: lines 100-106 run to the end of parse
Finish(flags) ==
    /\ featureFlags' = flags
    /\ rows' = PushFlags(rows, flags)
    /\ result' = printTable(rows', "--json" \in args.flags)
    /\ pc' = "done"

\* getSchemaPath settles, lines 99-100 and 110-115
GetSchemaPath ==
    /\ pc = "getSchemaPath"
    /\ \E schemaPath \in SchemaPaths :
         IF ~Truthy(schemaPath)
         THEN /\ config' = [schemaPath |-> schemaPath, outcome |-> "no schema",
                            generators |-> <<>>]
              /\ calls' = calls
              /\ Finish(<<>>)
         ELSE /\ config' = [schemaPath |-> schemaPath, outcome |-> "pending",
                            generators |-> <<>>]
              /\ calls' = Append(calls, Call("getSchema", ""))
              /\ pc' = "getSchema"
              /\ UNCHANGED <<featureFlags, rows, result>>
    /\ UNCHANGED <<argv, args, cwd, cliType, platform, step, cur, inflight, engines>>

\* getFeatureFlags without the try of line 114
ConfigFailedPropagates(fn) ==
    /\ config' = [config EXCEPT !.outcome = fn]
    /\ UNCHANGED <<featureFlags, rows>>
    /\ result' = Rejected(fn, "")
    /\ pc' = "done"

\* what parse does when getSchema or getConfig rejects: the catch of line 123
\* lets getFeatureFlags return [] at line 126
ConfigFailed(fn) ==
    /\ config' = [config EXCEPT !.outcome = fn]
    /\ Finish(<<>>)

\* getSchema settles, lines 115-116
GetSchema ==
    /\ pc = "getSchema"
    /\ \/ /\ calls' = Append(calls, Call("getConfig", ""))
          /\ pc' = "getConfig"
          /\ UNCHANGED <<config, featureFlags, rows, result>>
       \/ /\ calls' = calls
          /\ ConfigFailed("getSchema threw")
    /\ UNCHANGED <<argv, args, cwd, cliType, platform, step, cur, inflight, engines>>

\* getConfig settles, lines 116-126
GetConfig ==
    /\ pc = "getConfig"
    /\ \/ \E generators \in GeneratorLists :
            /\ config' = [config EXCEPT !.outcome = "ok", !.generators = generators]
            /\ Finish(FindFlags(generators))
       \/ ConfigFailed("getConfig threw")
    /\ UNCHANGED <<argv, args, cwd, cliType, platform, step, cur, inflight, engines, calls>>

Next ==
    \/ ParseArgs
    \/ GetPlatform
    \/ ResolveEngine
    \/ GetVersion
    \/ GetClientVersion
    \/ GetSchemaPath
    \/ GetSchema
    \/ GetConfig

Spec == Init /\ [][Next]_vars

(***************************************************************************)
(* printTable on its own: any rows over a few labels and values.           *)
(***************************************************************************)
TableLabels ==
    { <<>>,
      <<"a">>,
      <<"A">>,
      <<"a", " ", "b">>,
      <<"A", " ", " ", "b">>,
      <<"a", "\t", "b">>,
      <<" ", "a">>,
      <<"a", "b", " ">> }

TableValues == { <<"x">>, <<"y", " ", "Z">> }

TableRows == SeqsUpTo({<<l, v>> : l \in TableLabels, v \in TableValues}, MaxRows)

InitTable ==
    /\ pc = "printTable"
    /\ rows \in TableRows
    /\ args \in {[kind |-> "args", message |-> "", flags |-> f] : f \in {{}, {"--json"}}}
    /\ argv = <<>>
    /\ cwd = RootDir
    /\ cliType = ""
    /\ platform = Undefined
    /\ step = 0
    /\ cur = None
    /\ inflight = {}
    /\ engines = <<>>
    /\ config = None
    /\ featureFlags = <<>>
    /\ calls = <<>>
    /\ result = None

\* line 106 alone
PrintTable ==
    /\ pc = "printTable"
    /\ result' = printTable(rows, "--json" \in args.flags)
    /\ pc' = "done"
    /\ UNCHANGED <<argv, args, cwd, cliType, platform, step, cur, inflight, engines, rows,
                   config, featureFlags, calls>>

NextTable == PrintTable

SpecTable == InitTable /\ [][NextTable]_vars

(***************************************************************************)
(* Properties.                                                             *)
(***************************************************************************)
\* parse settled with a rendered table
Reported == result.kind \in {"text", "json"}

\* the role's variable is set, not empty, and names a path that exists
OverrideValid(c) == c.pathFromEnv # Undefined /\ Len(c.pathFromEnv) > 0 /\ c.exists

\* C1: whenever resolveEngine returns for a role, it returns the path held by
\* the role's environment variable, tagged with that variable's name, if and
\* only if the variable is set and names an existing path, whether or not the
\* default resolver would have found a path; in every other case (unset,
\* empty, naming no existing path) it returns the default resolver's path
\* with no fromEnvVar tag.
C1_LocatorOverride ==
    (cur # None /\ cur.probe = "ok") =>
        /\ cur.engineName \in DOMAIN engines
        /\ LET info == engines[cur.engineName]
           IN  IF OverrideValid(cur)
               THEN /\ info.path = cur.pathFromEnv
                    /\ info.fromEnvVar = engineEnvVarMap(cur.engineName)
                    /\ info.fromEnvVar # Undefined
               ELSE /\ cur.defaultFound
                    /\ info.path = DefaultPath(cur.engineName)
                    /\ info.fromEnvVar = Undefined

\* resolveEngine returned the override although the default resolver would
\* have failed
C1_Witness ==
    /\ cur # None
    /\ cur.probe = "ok"
    /\ OverrideValid(cur)
    /\ ~cur.defaultFound
    /\ engines[cur.engineName].path = OverridePath
    /\ \E r \in DOMAIN engines :
         r # cur.engineName /\ engines[r].fromEnvVar = Undefined

\* the getVersion calls made so far for a role
ProbesOf(role) == {i \in 1..Len(calls) : calls[i] = Call("getVersion", role)}

\* C2: if getVersion fails for a role, or the default resolver finds no path
\* for a role without a valid override, parse rejects with that failure: it
\* returns no table, the role gets no EngineInfo (no placeholder), no other
\* path is probed for it (a failed probe of an override path does not fall back
\* to the default path), and nothing further is called.
C2_ProbeFailureAborts ==
    (cur # None /\ (cur.probe = "failed" \/ (~OverrideValid(cur) /\ ~cur.defaultFound))) =>
        /\ pc = "done"
        /\ result.kind = "rejected"
        /\ result.error.role = cur.engineName
        /\ result.error.fn = (IF cur.probe = "failed" THEN "getVersion" ELSE "resolveBinary")
        /\ ~Reported
        /\ rows = <<>>
        /\ cur.engineName \notin DOMAIN engines
        /\ inflight = {}
        /\ Cardinality(ProbesOf(cur.engineName)) = (IF cur.probe = "failed" THEN 1 ELSE 0)
        /\ calls[Len(calls)].role = cur.engineName
        /\ (cur.probe = "failed" /\ OverrideValid(cur)) =>
               Call("resolveBinary", cur.engineName) \notin {calls[i] : i \in 1..Len(calls)}

\* the probe of an override path failed although the default resolver would
\* have found the bundled engine, after an earlier role was resolved
C2_Witness ==
    /\ cur # None
    /\ cur.probe = "failed"
    /\ OverrideValid(cur)
    /\ cur.defaultFound
    /\ DOMAIN engines # {}
    /\ result.kind = "rejected"

\* the labels of the rows, in row order
Labels == [i \in 1..Len(rows) |-> rows[i][1]]

PreviewRows == {i \in 1..Len(rows) : rows[i][1] = LblPreview}

\* the parsed configuration has a generator that declares a preview feature
Declares ==
    /\ config # None
    /\ config.outcome = "ok"
    /\ \E i \in 1..Len(config.generators) : Len(config.generators[i]) > 0

\* C3: in the rows of a report, a 'Preview Features' row is present if and
\* only if a generator of the parsed configuration declares a non-empty
\* preview-feature list; when present it is the last row, the only such row,
\* and its value is the ', '-joined list of the first such generator in
\* declaration order; with no configuration file, or no generator declaring
\* features, there is no such row, and its value is never empty.
C3_PreviewFeaturesRow ==
    Reported =>
        /\ (PreviewRows # {}) <=> Declares
        /\ PreviewRows \subseteq {Len(rows)}
        /\ config.outcome = "no schema" => PreviewRows = {}
        /\ Declares =>
             \E i \in 1..Len(config.generators) :
                /\ Len(config.generators[i]) > 0
                /\ \A j \in 1..(i - 1) : Len(config.generators[j]) = 0
                /\ featureFlags = config.generators[i]
                /\ rows[Len(rows)][2] # <<>>
                /\ Len(Split(rows[Len(rows)][2], ",")) = Len(config.generators[i])
                /\ \A k \in 1..Len(config.generators[i]) :
                      Split(rows[Len(rows)][2], ",")[k] =
                          (IF k = 1 THEN <<>> ELSE <<" ">>) \o config.generators[i][k]

\* two generators declare different non-empty lists, the first of them two
\* features, and the report ends with the row
C3_Witness ==
    /\ Reported
    /\ config.outcome = "ok"
    /\ Len(config.generators) = 2
    /\ Len(config.generators[1]) = 2
    /\ Len(config.generators[2]) = 1
    /\ rows[Len(rows)] = <<LblPreview, <<"a", "b", ",", " ", "c">>>>

\* the labels of the nine rows of lines 84-97
ReportLabels ==
    << PkgName, LblClient, LblPlatform,
       LblQueryEngine \o (IF cliType = libqueryEngine THEN SfxNodeAPI ELSE SfxBinary),
       LblMigration, LblIntrospection, LblFormat, LblHash, LblStudio >>

\* C4: a failure of getSchema or getConfig never surfaces: getFeatureFlags
\* returns the empty list, and parse (every engine probe having succeeded)
\* still returns the report, with the nine other rows as they were and no
\* 'Preview Features' row.
C4_ConfigFailureAbsorbed ==
    (config # None /\ config.outcome \in {"getSchema threw", "getConfig threw"}) =>
        /\ pc = "done"
        /\ Reported
        /\ result = printTable(rows, "--json" \in args.flags)
        /\ featureFlags = <<>>
        /\ Labels = ReportLabels
        /\ \A r \in {cliType, migrationEngine, introspectionEngine, prismaFmt} :
              r \in DOMAIN engines

\* getConfig threw after getSchema answered, and the JSON report was returned
C4_Witness ==
    /\ config # None
    /\ config.outcome = "getConfig threw"
    /\ Len(calls) > 0
    /\ calls[Len(calls)] = Call("getConfig", "")
    /\ result.kind = "json"
    /\ Len(rows) = 9

Index(label) == CHOOSE i \in 1..Len(rows) : rows[i][1] = label

\* C5 as stated: the tool, client library and companion UI tool (Studio) rows
\* come first, the engine rows next, then the default engines hash, then the
\* feature-flags row last if present.
C5_StudioBeforeEngines ==
    Reported =>
        /\ \A l \in {PkgName, LblClient, LblStudio} : Index(l) < Index(ReportLabels[4])
        /\ Index(ReportLabels[4]) < Index(LblMigration)
        /\ Index(LblMigration) < Index(LblIntrospection)
        /\ Index(LblIntrospection) < Index(LblFormat)
        /\ Index(LblFormat) < Index(LblHash)
        /\ PreviewRows \subseteq {Len(rows)}

\* C5, amended: the row order of a report is fixed by the code and depends on
\* the inputs only through the query engine's label and the presence of the
\* feature-flags row: tool name/version, client library, current platform,
\* then the Query, Migration, Introspection and Format engine rows, then the
\* default engines hash, then the companion UI tool (Studio), then the
\* feature-flags row last if present.
C5_RowOrder ==
    Reported =>
        Labels = (IF featureFlags = <<>> THEN ReportLabels
                  ELSE Append(ReportLabels, LblPreview))

\* a report with all ten rows, for the Node-API query engine
C5_Witness ==
    /\ Reported
    /\ Len(rows) = 10
    /\ cliType = libqueryEngine
    /\ rows[9][1] = LblStudio
    /\ rows[10][1] = LblPreview

\* nothing of the report has been started: no env file loaded, no platform
\* detected, no engine located or probed, no configuration read
NothingStarted ==
    /\ calls = <<>>
    /\ platform = Undefined
    /\ cur = None
    /\ inflight = {}
    /\ engines = <<>>
    /\ rows = <<>>
    /\ config = None

AsksHelp(av) == \E i \in 1..Len(av) : av[i] \in {"--help", "-h"}

HasUnrecognized(av) ==
    \E i \in 1..Len(av) : av[i] \notin {"--help", "-h", "--version", "-v", "--json"}

\* C6: when argv holds an unrecognized argument parse returns a HelpError, and
\* when it holds --help or -h (and nothing unrecognized) parse returns the
\* usage text; in both cases no report is generated and nothing of it is
\* started.  Conversely a report is only ever produced for arguments that
\* parsed without error and did not ask for help.
C6_HelpShortCircuits ==
    /\ [][pc = "start" =>
            /\ HasUnrecognized(argv) =>
                 (result'.kind = "HelpError" /\ pc' = "done" /\ NothingStarted')
            /\ (AsksHelp(argv) /\ ~HasUnrecognized(argv)) =>
                 (result' = HelpText /\ pc' = "done" /\ NothingStarted')
            /\ (~AsksHelp(argv) /\ ~HasUnrecognized(argv)) =>
                 (result' = None /\ pc' = "getPlatform")]_vars
    /\ [](result.kind \in {"help", "HelpError"} => (pc = "done" /\ NothingStarted))
    /\ [](Reported => (args.kind = "args" /\ "--help" \notin args.flags))

\* the usage text was returned for an argv that also asks for JSON
C6_Witness ==
    /\ pc = "done"
    /\ result = HelpText
    /\ args.kind = "args"
    /\ args.flags = {"--help", "--json"}
    /\ NothingStarted

\* path.relative(process.cwd(), path) for the working directories and binary
\* paths of the model, written out
ExpectedRelative(dir, p) ==
    CASE dir = RootDir /\ p = OverridePath ->
           <<"o", "p", "t", "/", "c", "u", "s", "t", "o", "m", "/", "q", "e">>
      [] dir = BinDir /\ p = OverridePath ->
           <<".", ".", "/", ".", ".", "/", ".", ".", "/",
             "o", "p", "t", "/", "c", "u", "s", "t", "o", "m", "/", "q", "e">>
      [] dir = RootDir /\ p # OverridePath ->
           <<"u", "s", "r", "/", "l", "o", "c", "a", "l", "/", "b", "i", "n", "/">>
           \o SubSeq(p, Len(BinDir) + 2, Len(p))
      [] dir = BinDir /\ p # OverridePath -> SubSeq(p, Len(BinDir) + 2, Len(p))

ResolvedBy == <<",", " ", "r", "e", "s", "o", "l", "v", "e", "d", " ", "b", "y", " ">>

\* the row of a role in the rows literal of lines 88-94
EngineRow(role) ==
    CASE role = migrationEngine -> 5
      [] role = introspectionEngine -> 6
      [] role = prismaFmt -> 7
      [] OTHER -> 4

DisplayedRoles == {cliType, migrationEngine, introspectionEngine, prismaFmt}

\* C9 as stated: every engine row reads '<version> (at <path>[, resolved by
\* <VAR>])', and an override /opt/custom/qe reporting 3.1.0 gives
\* '3.1.0 (at /opt/custom/qe, resolved by <VAR>)'.
C9_OverrideShownAbsolute ==
    Reported =>
        \A role \in DisplayedRoles :
            engines[role].fromEnvVar # Undefined =>
                rows[EngineRow(role)][2] =
                    <<"3", ".", "1", ".", "0", " ", "(", "a", "t", " ", "/", "o", "p", "t",
                      "/", "c", "u", "s", "t", "o", "m", "/", "q", "e">>
                    \o ResolvedBy \o engineEnvVarMap(role) \o <<")">>

\* C9, amended: every engine row reads '<version> (at <path of the binary
\* relative to the working directory>)', with ', resolved by <VAR>' before the
\* closing parenthesis if and only if resolveEngine took the path from the
\* role's variable VAR.  The override path is made relative too: /opt/custom/qe
\* reporting 3.1.0 gives '3.1.0 (at opt/custom/qe, resolved by <VAR>)' from the
\* working directory /, and '3.1.0 (at ../../../opt/custom/qe, resolved by
\* <VAR>)' from /usr/local/bin; the default /usr/local/bin/migration-engine
\* reporting 4.0.0 gives '4.0.0 (at migration-engine)' from /usr/local/bin.
C9_EngineRowValue ==
    Reported =>
        /\ \A role \in DisplayedRoles :
              LET info == engines[role]
                  value == rows[EngineRow(role)][2]
                  head == info.version \o <<" ", "(", "a", "t", " ">>
                          \o ExpectedRelative(cwd, info.path)
              IN  IF info.fromEnvVar # Undefined
                  THEN value = head \o ResolvedBy \o engineEnvVarMap(role) \o <<")">>
                  ELSE value = head \o <<")">>
        /\ (cwd = RootDir /\ cliType = queryEngine
                /\ engines[queryEngine].fromEnvVar # Undefined) =>
              rows[4][2] =
                  <<"3", ".", "1", ".", "0", " ", "(", "a", "t", " ", "o", "p", "t", "/",
                    "c", "u", "s", "t", "o", "m", "/", "q", "e", ",", " ", "r", "e", "s",
                    "o", "l", "v", "e", "d", " ", "b", "y", " ", "P", "R", "I", "S", "M",
                    "A", "_", "Q", "U", "E", "R", "Y", "_", "E", "N", "G", "I", "N", "E",
                    "_", "B", "I", "N", "A", "R", "Y", ")">>
        /\ (cwd = BinDir /\ engines[migrationEngine].fromEnvVar = Undefined) =>
              rows[5][2] =
                  <<"4", ".", "0", ".", "0", " ", "(", "a", "t", " ", "m", "i", "g", "r",
                    "a", "t", "i", "o", "n", "-", "e", "n", "g", "i", "n", "e", ")">>

\* a report from / with the query engine overridden and the migration engine
\* bundled
C9_Witness ==
    /\ Reported
    /\ cwd = RootDir
    /\ cliType = queryEngine
    /\ engines[queryEngine].fromEnvVar = engineEnvVarMap(queryEngine)
    /\ engines[queryEngine].path = OverridePath
    /\ engines[migrationEngine].fromEnvVar = Undefined

\* the roles of the calls to `fn`, in call order
RolesCalled(fn) ==
    LET picked == SelectSeq(calls, LAMBDA c : c.fn = fn)
    IN  [i \in 1..Len(picked) |-> picked[i].role]

\* the roles located so far: each is located by the test of the override path
\* or by the default resolver
RolesLocated ==
    LET picked == SelectSeq(calls, LAMBDA c : c.fn \in {"existsSync", "resolveBinary"})
    IN  [i \in 1..Len(picked) |-> picked[i].role]

IsPrefix(a, b) == Len(a) <= Len(b) /\ a = SubSeq(b, 1, Len(a))

\* the engine roles in the order of their rows, lines 88-94
DisplayOrder == <<cliType, migrationEngine, introspectionEngine, prismaFmt>>

\* C10 as stated: the roles are located and probed one by one in the order in
\* which their rows are displayed.
C10_ProbedInDisplayOrder ==
    /\ IsPrefix(RolesCalled("getVersion"), DisplayOrder)
    /\ Cardinality(inflight) <= 1

\* C10, amended: the roles are located and probed strictly one after the
\* other, in the order of the resolveEngine calls of lines 76-80, which is
\* Introspection, Migration, Query, Format and is not the order in which their
\* rows are displayed (Query, Migration, Introspection, Format): a role is
\* located only when every earlier role has been probed with success, so at
\* most one probe is in flight; a report has each of the four roles located and
\* probed exactly once; and once a probe fails no later role is located or
\* probed.
C10_SequentialResolution ==
    LET order == <<introspectionEngine, migrationEngine, cliType, prismaFmt>>
        probed == RolesCalled("getVersion")
        located == RolesLocated
    IN  /\ Cardinality(inflight) <= 1
        /\ (cliType # "") => (IsPrefix(located, order) /\ IsPrefix(probed, located))
        /\ (cliType = "") => located = <<>>
        /\ Len(located) - Len(probed) <= 1
        /\ \A i \in 1..Len(located) : \A j \in 1..(i - 1) : located[j] \in DOMAIN engines
        /\ inflight # {} => (pc = "getVersion" /\ Len(probed) = Cardinality(DOMAIN engines) + 1)
        /\ inflight = {} => Len(probed) \in {Cardinality(DOMAIN engines),
                                             Cardinality(DOMAIN engines) + 1}
        /\ Reported => (probed = order /\ located = order)
        /\ (result.kind = "rejected" /\ result.error.fn = "getVersion") =>
               /\ probed[Len(probed)] = result.error.role
               /\ located[Len(located)] = result.error.role
               /\ result.error.role \notin DOMAIN engines

\* the probe of the third role, the query engine, failed after introspection
\* and migration were probed: the format engine was never located
C10_Witness ==
    /\ result.kind = "rejected"
    /\ result.error = Call("getVersion", queryEngine)
    /\ RolesCalled("getVersion") = <<introspectionEngine, migrationEngine, queryEngine>>
    /\ DOMAIN engines = {introspectionEngine, migrationEngine}

(***************************************************************************)
(* Properties of printTable on its own.                                    *)
(***************************************************************************)
\* the slug of each label of TableLabels, written out
ExpectedSlug(label) ==
    CASE label = <<>> -> <<>>
      [] label = <<"a">> -> <<"a">>
      [] label = <<"A">> -> <<"a">>
      [] label = <<"a", " ", "b">> -> <<"a", "-", "b">>
      [] label = <<"A", " ", " ", "b">> -> <<"a", "-", "b">>
      [] label = <<"a", "\t", "b">> -> <<"a", "-", "b">>
      [] label = <<" ", "a">> -> <<"-", "a">>
      [] label = <<"a", "b", " ">> -> <<"a", "b", "-">>

\* the value of the last row whose label has the slug `key`
LastValue(key) ==
    rows[CHOOSE i \in 1..Len(rows) :
             /\ ExpectedSlug(rows[i][1]) = key
             /\ \A j \in (i + 1)..Len(rows) : ExpectedSlug(rows[j][1]) # key][2]

\* a member of the printed object, without the comma that may follow it
MemberLine(key, value) ==
    <<" ", " ", "\"">> \o key \o <<"\"", ":", " ", "\"">> \o value \o <<"\"">>

StripComma(line) ==
    IF line # <<>> /\ line[Len(line)] = "," THEN SubSeq(line, 1, Len(line) - 1) ELSE line

\* C7: in JSON mode the printed object has exactly one member per slug of a
\* row label (the label lowercased, every run of whitespace replaced by one
\* hyphen), its value being the unchanged value of the last row with that slug;
\* so when the slugs of the labels are pairwise distinct there is exactly one
\* member per row, as there is one line per row in the text rendering.
C7_JsonKeys ==
    (pc = "done" /\ result.kind = "json") =>
        LET lines == Split(result.out, "\n")
            slugs == {ExpectedSlug(rows[i][1]) : i \in 1..Len(rows)}
            members == [i \in 1..(Len(lines) - 2) |-> StripComma(lines[i + 1])]
        IN  IF rows = <<>>
            THEN result.out = <<"{", "}">>
            ELSE /\ lines[1] = <<"{">>
                 /\ lines[Len(lines)] = <<"}">>
                 /\ Len(members) = Cardinality(slugs)
                 /\ {members[i] : i \in 1..Len(members)} =
                        {MemberLine(k, LastValue(k)) : k \in slugs}
                 /\ \A i \in 1..Len(members) :
                        (lines[i + 1] # members[i]) <=> (i < Len(members))
                 /\ (Cardinality(slugs) = Len(rows)) =>
                        /\ Len(members) = Len(rows)
                        /\ Len(TextLines(rows)) = Len(rows)
                        /\ \A i \in 1..Len(rows) :
                              members[i] = MemberLine(ExpectedSlug(rows[i][1]), rows[i][2])

\* two rows whose labels differ and have the same slug: one member, holding
\* the second row's value
C7_Witness ==
    /\ pc = "done"
    /\ result.kind = "json"
    /\ rows = << <<<<"a", " ", "b">>, <<"x">>>>, <<<<"A", " ", " ", "b">>, <<"y", " ", "Z">>>> >>
    /\ result.out = <<"{", "\n">>
                    \o MemberLine(<<"a", "-", "b">>, <<"y", " ", "Z">>)
                    \o <<"\n", "}">>

\* the length of the longest label of the rows, 0 when there is none
Widest ==
    IF rows = <<>> THEN 0
    ELSE CHOOSE w \in {Len(rows[i][1]) : i \in 1..Len(rows)} :
             \A i \in 1..Len(rows) : Len(rows[i][1]) <= w

Blank(s) == \A i \in 1..Len(s) : s[i] = " "

\* C8 as stated: every label is left-padded to the width of the longest label,
\* that is, the spaces come before the label.
C8_LabelsLeftPadded ==
    (pc = "done" /\ result.kind = "text" /\ rows # <<>>) =>
        LET lines == Split(result.out, "\n")
        IN  \A i \in 1..Len(rows) :
               /\ Blank(SubSeq(lines[i], 1, Widest - Len(rows[i][1])))
               /\ SubSeq(lines[i], Widest - Len(rows[i][1]) + 1, Widest) = rows[i][1]

\* C8, amended: in text mode every label is padded on its right with spaces
\* to the width of the longest label of the given rows (labels are
\* left-aligned), label and value are joined by ' : ', and there is exactly one
\* line per row, in row order, joined by newlines with no trailing newline; so
\* the separator starts at the same column, the longest label's length, on
\* every line.
C8_TextTable ==
    (pc = "done" /\ result.kind = "text") =>
        IF rows = <<>>
        THEN result.out = <<>>
        ELSE LET lines == Split(result.out, "\n")
             IN  /\ Len(lines) = Len(rows)
                 /\ result.out[Len(result.out)] # "\n"
                 /\ \A i \in 1..Len(rows) :
                       LET label == rows[i][1]
                       IN  /\ Len(lines[i]) = Widest + 3 + Len(rows[i][2])
                           /\ SubSeq(lines[i], 1, Len(label)) = label
                           /\ Blank(SubSeq(lines[i], Len(label) + 1, Widest))
                           /\ SubSeq(lines[i], Widest + 1, Widest + 3) = <<" ", ":", " ">>
                           /\ SubSeq(lines[i], Widest + 4, Len(lines[i])) = rows[i][2]

\* two rows whose labels differ in length: the shorter label is followed by
\* the padding
C8_Witness ==
    /\ pc = "done"
    /\ result.kind = "text"
    /\ rows = << <<<<"a">>, <<"x">>>>, <<<<"a", " ", "b">>, <<"y", " ", "Z">>>> >>
    /\ result.out = <<"a", " ", " ", " ", ":", " ", "x", "\n",
                      "a", " ", "b", " ", ":", " ", "y", " ", "Z">>

=============================================================================
